---- MODULE Spec2Model ----
(***************************************************************************)
(* The LED-matrix Morse decoder: src/read-morse/readpass.py (live video),  *)
(* src/readpassImage.py (still image) and src/readpass.py (the earlier     *)
(* still-image reader).                                                    *)
(*                                                                         *)
(* Representation.  A Python str is the sequence of its characters, each a *)
(* one-character string: '.-' is <<".", "-">>, 'SOS' is <<"S","O","S">>,   *)
(* '' is <<>>.  A pixel is the BGR triple <<b, g, r>> of 8-bit channels,   *)
(* an HSV sample the triple <<h, s, v>>.  An image is a function from      *)
(* 0..15 (rows) to functions from 0..15 (columns) to pixels: the frames    *)
(* drawn are 16x16, for which cv2.resize(image, (16, 16)) returns the      *)
(* pixels unchanged.                                                       *)
(***************************************************************************)
EXTENDS Integers, Sequences, FiniteSets, TLC

VARIABLES
    pc,                     \* position in main()
    cap,                    \* the capture device: "closed", "open", "released"
    ret,                    \* cap.read()'s flag of the last read
    frame,                  \* the frame read / the image loaded
    processed_frame,        \* adjust_gamma's result
    morse_sequences,        \* extract_morse_sequences' result
    translated_characters,  \* the list main() appends to
    idx,                    \* index of main()'s loop over morse_sequences
    translated_text,        \* "".join(...).strip() of this pass
    last_translated_text,   \* the text main() printed last
    printed,                \* whether this pass printed its result
    prev_text,              \* history: the translated text of the pass before
    run_emits,              \* history: prints in the current run of equal texts
    run_follows_change,     \* history: the run's text differs from the one before it
    npasses,                \* history: decode passes made
    message,                \* the message a synthetic grid encodes
    hsv,                    \* the HSV sample classify_pixel reads at line 22
    sym_stream,             \* read-morse/readpass.py classify_pixel's result
    sym_image,              \* readpassImage.py classify_pixel's result
    sym_proto,              \* readpass.py classify_pixel's result
    seq,                    \* morse_to_text's argument
    looked,                 \* morse_to_text's result
    gamma,                  \* adjust_gamma's gamma, in tenths
    pixel_in,               \* a channel value of adjust_gamma's image
    cast,                   \* what astype("uint8") makes of a value outside 0..255
    outcome                 \* adjust_gamma's outcome

pipeVars == <<pc, cap, ret, frame, processed_frame, morse_sequences,
              translated_characters, idx, translated_text,
              last_translated_text, printed, prev_text, run_emits,
              run_follows_change, npasses, message>>
classVars == <<hsv, sym_stream, sym_image, sym_proto>>
lookVars == <<seq, looked>>
gammaVars == <<gamma, pixel_in, cast, outcome>>
vars == <<pipeVars, classVars, lookVars, gammaVars>>

(***************************************************************************)
(* Python strings                                                          *)
(***************************************************************************)
\* The characters str.strip() removes among those the program can produce.
Whitespace == {" ", "\t", "\n", "\r"}

RECURSIVE lstrip(_)
lstrip(s) ==
    IF s # <<>> /\ Head(s) \in Whitespace THEN lstrip(Tail(s)) ELSE s

RECURSIVE rstrip(_)
rstrip(s) ==
    IF s # <<>> /\ s[Len(s)] \in Whitespace
    THEN rstrip(SubSeq(s, 1, Len(s) - 1))
    ELSE s

\* str.strip(): leading and trailing whitespace removed.
strip(s) == rstrip(lstrip(s))

\* "".join(parts)
RECURSIVE join(_)
join(parts) ==
    IF parts = <<>> THEN <<>> ELSE Head(parts) \o join(Tail(parts))

(***************************************************************************)
(* The code table and its lookup                                           *)
(***************************************************************************)
\* The dict display of MORSE_CODE_DICT, item by item in source order.  The
\* display of src/readpassImage.py (lines 96-110) is the same text.
MORSE_CODE_ITEMS ==
    <<
       <<<<".", "-">>, <<"A">>>>,
       <<<<"-", ".", ".", ".">>, <<"B">>>>,
       <<<<"-", ".", "-", ".">>, <<"C">>>>,
       <<<<"-", ".", ".">>, <<"D">>>>,
       <<<<".">>, <<"E">>>>,
       <<<<".", ".", "-", ".">>, <<"F">>>>,
       <<<<"-", "-", ".">>, <<"G">>>>,
       <<<<".", ".", ".", ".">>, <<"H">>>>,
       <<<<".", ".">>, <<"I">>>>,
       <<<<".", "-", "-", "-">>, <<"J">>>>,
       <<<<"-", ".", "-">>, <<"K">>>>,
       <<<<".", "-", ".", ".">>, <<"L">>>>,
       <<<<"-", "-">>, <<"M">>>>,
       <<<<"-", ".">>, <<"N">>>>,
       <<<<"-", "-", "-">>, <<"O">>>>,
       <<<<".", "-", "-", ".">>, <<"P">>>>,
       <<<<"-", "-", ".", "-">>, <<"Q">>>>,
       <<<<".", "-", ".">>, <<"R">>>>,
       <<<<".", ".", ".">>, <<"S">>>>,
       <<<<"-">>, <<"T">>>>,
       <<<<".", ".", "-">>, <<"U">>>>,
       <<<<".", ".", ".", "-">>, <<"V">>>>,
       <<<<".", "-", "-">>, <<"W">>>>,
       <<<<"-", ".", ".", "-">>, <<"X">>>>,
       <<<<"-", ".", "-", "-">>, <<"Y">>>>,
       <<<<"-", "-", ".", ".">>, <<"Z">>>>,
       <<<<"-", "-", "-", "-", "-">>, <<"0">>>>,
       <<<<".", "-", "-", "-", "-">>, <<"1">>>>,
       <<<<".", ".", "-", "-", "-">>, <<"2">>>>,
       <<<<".", ".", ".", "-", "-">>, <<"3">>>>,
       <<<<".", ".", ".", ".", "-">>, <<"4">>>>,
       <<<<".", ".", ".", ".", ".">>, <<"5">>>>,
       <<<<"-", ".", ".", ".", ".">>, <<"6">>>>,
       <<<<"-", "-", ".", ".", ".">>, <<"7">>>>,
       <<<<"-", "-", "-", ".", ".">>, <<"8">>>>,
       <<<<"-", "-", "-", "-", ".">>, <<"9">>>>,
       <<<<".", "-", ".", "-", ".", "-">>, <<".">>>>,
       <<<<"-", "-", ".", ".", "-", "-">>, <<",">>>>,
       <<<<"-", "-", "-", ".", ".", ".">>, <<":">>>>,
       <<<<".", ".", "-", "-", ".", ".">>, <<"?">>>>,
       <<<<"-", ".", ".", ".", ".", "-">>, <<"-">>>>,
       <<<<".", "-", ".", ".", "-", ".">>, <<"\"">>>>,
       <<<<"-", ".", "-", ".", "-", "-">>, <<"!">>>>,
       <<<<".", "-", ".", "-", ".">>, <<"+">>>>,
       <<<<".", "-", ".", ".", "-", ".">>, <<"'">>>>,
       <<<<"-", "-", "-", ".">>, <<"(">>>>,
       <<<<"-", ".", "-", "-", ".", "-">>, <<")">>>>,
       <<<<".", "-", ".", ".", ".">>, <<"&">>>>,
       <<<<"-", "-", ".", "-", ".">>, <<"@">>>>,
       <<<<".", ".", ".", "-", ".", "-">>, <<"$">>>>,
       <<<<".", "-", ".", "-", ".", ".">>, <<"_">>>>,
       <<<<".", ".", "-", "-", ".", "-">>, <<"/">>>>,
       <<<<".", ".", ".", "-", "-", "-", ".", ".", ".">>, <<"S", "O", "S">>>>
    >>

\* A dict display keeps, for a key written twice, the value written last.
MORSE_CODE_DICT ==
    [k \in {MORSE_CODE_ITEMS[j][1] : j \in DOMAIN MORSE_CODE_ITEMS} |->
        LET last == CHOOSE j \in DOMAIN MORSE_CODE_ITEMS :
                        /\ MORSE_CODE_ITEMS[j][1] = k
                        /\ \A m \in DOMAIN MORSE_CODE_ITEMS :
                               MORSE_CODE_ITEMS[m][1] = k => m <= j
        IN  MORSE_CODE_ITEMS[last][2]]

\* The marker morse_to_text returns for a sequence that is no key.
UNKNOWN == <<"?">>

\* MORSE_CODE_DICT.get(morse_code_sequence, ''): the default left empty.
morse_to_text_EmptyDefault(morse_code_sequence) ==
    IF morse_code_sequence \in DOMAIN MORSE_CODE_DICT
    THEN MORSE_CODE_DICT[morse_code_sequence]
    ELSE <<>>

\* MORSE_CODE_DICT.get(morse_code_sequence, '?')
morse_to_text(morse_code_sequence) ==
    IF morse_code_sequence \in DOMAIN MORSE_CODE_DICT
    THEN MORSE_CODE_DICT[morse_code_sequence]
    ELSE UNKNOWN

(***************************************************************************)
(* Pixel classification                                                    *)
(***************************************************************************)
\* round(num / den) for num >= 0, den > 0 with no tie: OpenCV's table entries.
RoundDiv(num, den) == (2 * num + den) \div (2 * den)

\* cv2.cvtColor(np.uint8([[bgr_pixel]]), cv2.COLOR_BGR2HSV)[0][0]: OpenCV's
\* 8-bit conversion, fixed point with 12 fractional bits, H in 0..179.
cvtColor_BGR2HSV(bgr_pixel) ==
    LET b == bgr_pixel[1]
        g == bgr_pixel[2]
        r == bgr_pixel[3]
        max2(x, y) == IF x >= y THEN x ELSE y
        min2(x, y) == IF x <= y THEN x ELSE y
        v == max2(max2(b, g), r)
        vmin == min2(min2(b, g), r)
        diff == v - vmin
        sdiv == IF v = 0 THEN 0 ELSE RoundDiv(255 * 4096, v)
        hdiv == IF diff = 0 THEN 0 ELSE RoundDiv(180 * 4096, 6 * diff)
        s == (diff * sdiv + 2048) \div 4096
        h0 == IF v = r THEN g - b
              ELSE IF v = g THEN b - r + 2 * diff
              ELSE r - g + 4 * diff
        h1 == (h0 * hdiv + 2048) \div 4096
        h == IF h1 < 0 THEN h1 + 180 ELSE h1
    IN  <<h, s, v>>

\* classify_hsv_stream with < and > for the hue bounds.
classify_hsv_stream_HueExclusive(h, s, v) ==
    LET is_red == ((h >= 0 /\ h < 10) \/ (h > 160 /\ h <= 179))
                  /\ (s >= 40 /\ s <= 255) /\ (v >= 80 /\ v <= 255)
        is_blue == (h > 90 /\ h < 130)
                   /\ (s >= 40 /\ s <= 255) /\ (v >= 80 /\ v <= 255)
    IN  IF is_red THEN <<".">> ELSE IF is_blue THEN <<"-">> ELSE <<>>

\* classify_hsv_stream returning ' ' for a pixel neither red nor blue.
classify_hsv_stream_BlankAsSpace(h, s, v) ==
    LET is_red == ((h >= 0 /\ h <= 10) \/ (h >= 160 /\ h <= 179))
                  /\ (s >= 40 /\ s <= 255) /\ (v >= 80 /\ v <= 255)
        is_blue == (h >= 90 /\ h <= 130)
                   /\ (s >= 40 /\ s <= 255) /\ (v >= 80 /\ v <= 255)
    IN  IF is_red THEN <<".">> ELSE IF is_blue THEN <<"-">> ELSE <<" ">>

\* src/read-morse/readpass.py, classify_pixel from "h, s, v = hsv" on.
classify_hsv_stream(h, s, v) ==
    LET RED_HUE_MIN1 == 0
        RED_HUE_MAX1 == 10
        RED_HUE_MIN2 == 160
        RED_HUE_MAX2 == 179
        RED_SAT_MIN == 40
        RED_SAT_MAX == 255
        RED_VAL_MIN == 80
        RED_VAL_MAX == 255
        BLUE_HUE_MIN == 90
        BLUE_HUE_MAX == 130
        BLUE_SAT_MIN == 40
        BLUE_SAT_MAX == 255
        BLUE_VAL_MIN == 80
        BLUE_VAL_MAX == 255
        is_red == ((h >= RED_HUE_MIN1 /\ h <= RED_HUE_MAX1)
                   \/ (h >= RED_HUE_MIN2 /\ h <= RED_HUE_MAX2))
                  /\ (s >= RED_SAT_MIN /\ s <= RED_SAT_MAX)
                  /\ (v >= RED_VAL_MIN /\ v <= RED_VAL_MAX)
        is_blue == (h >= BLUE_HUE_MIN /\ h <= BLUE_HUE_MAX)
                   /\ (s >= BLUE_SAT_MIN /\ s <= BLUE_SAT_MAX)
                   /\ (v >= BLUE_VAL_MIN /\ v <= BLUE_VAL_MAX)
    IN  IF is_red THEN <<".">>
        ELSE IF is_blue THEN <<"-">>
        ELSE <<>>

\* classify_hsv_image with 80 for the two saturation minima.
classify_hsv_image_SatMin80(h, s, v) ==
    LET is_red == ((h >= 0 /\ h <= 10) \/ (h >= 160 /\ h <= 179))
                  /\ (s >= 80 /\ s <= 255) /\ (v >= 80 /\ v <= 255)
        is_blue == (h >= 90 /\ h <= 130)
                   /\ (s >= 80 /\ s <= 255) /\ (v >= 80 /\ v <= 255)
    IN  IF is_red THEN <<".">> ELSE IF is_blue THEN <<"-">> ELSE <<>>

\* src/readpassImage.py, classify_pixel from "h, s, v = hsv" on.
classify_hsv_image(h, s, v) ==
    LET RED_HUE_MIN1 == 0
        RED_HUE_MAX1 == 10
        RED_HUE_MIN2 == 160
        RED_HUE_MAX2 == 179
        RED_SAT_MIN == 40
        RED_SAT_MAX == 255
        RED_VAL_MIN == 80
        RED_VAL_MAX == 255
        BLUE_HUE_MIN == 90
        BLUE_HUE_MAX == 130
        BLUE_SAT_MIN == 40
        BLUE_SAT_MAX == 255
        BLUE_VAL_MIN == 80
        BLUE_VAL_MAX == 255
        is_red == ((h >= RED_HUE_MIN1 /\ h <= RED_HUE_MAX1)
                   \/ (h >= RED_HUE_MIN2 /\ h <= RED_HUE_MAX2))
                  /\ (s >= RED_SAT_MIN /\ s <= RED_SAT_MAX)
                  /\ (v >= RED_VAL_MIN /\ v <= RED_VAL_MAX)
        is_blue == (h >= BLUE_HUE_MIN /\ h <= BLUE_HUE_MAX)
                   /\ (s >= BLUE_SAT_MIN /\ s <= BLUE_SAT_MAX)
                   /\ (v >= BLUE_VAL_MIN /\ v <= BLUE_VAL_MAX)
    IN  IF is_red THEN <<".">>
        ELSE IF is_blue THEN <<"-">>
        ELSE <<>>

\* src/readpass.py, classify_pixel from "h, s, v = hsv" on.
classify_hsv_proto(h, s, v) ==
    IF (h < 10 \/ h > 160) /\ s > 80 /\ v > 80 THEN <<".">>
    ELSE IF (90 < h /\ h < 130) /\ s > 80 /\ v > 50 THEN <<"-">>
    ELSE <<>>

\* classify_pixel(bgr_pixel) of the file `variant` names.
classify_pixel(variant, bgr_pixel) ==
    LET x == cvtColor_BGR2HSV(bgr_pixel)
    IN  CASE variant = "stream" -> classify_hsv_stream(x[1], x[2], x[3])
          [] variant = "image" -> classify_hsv_image(x[1], x[2], x[3])
          [] variant = "proto" -> classify_hsv_proto(x[1], x[2], x[3])

(***************************************************************************)
(* Values of the variables a specification does not use                    *)
(***************************************************************************)
NotRun == <<"none">>

PipeIdle ==
    /\ pc = "idle"
    /\ cap = "closed"
    /\ ret = FALSE
    /\ frame = <<>>
    /\ processed_frame = <<>>
    /\ morse_sequences = <<>>
    /\ translated_characters = <<>>
    /\ idx = 0
    /\ translated_text = <<>>
    /\ last_translated_text = <<>>
    /\ printed = FALSE
    /\ prev_text = <<>>
    /\ run_emits = 0
    /\ run_follows_change = FALSE
    /\ npasses = 0
    /\ message = <<>>

ClassIdle ==
    /\ hsv = <<0, 0, 0>>
    /\ sym_stream = NotRun
    /\ sym_image = NotRun
    /\ sym_proto = NotRun

LookIdle ==
    /\ seq = <<>>
    /\ looked = NotRun

GammaIdle ==
    /\ gamma = 10
    /\ pixel_in = 0
    /\ cast = "wrap"
    /\ outcome = [status |-> "none", image |-> <<>>]

(***************************************************************************)
(* SpecClassify: the three classify_pixel on one HSV sample                *)
(***************************************************************************)
HueSamples == 0..179
SatSamples == {0, 39, 40, 41, 80, 81, 254, 255}
ValSamples == {0, 50, 51, 79, 80, 81, 254, 255}

InitClassify ==
    /\ hsv \in HueSamples \X SatSamples \X ValSamples
    /\ sym_stream = NotRun
    /\ sym_image = NotRun
    /\ sym_proto = NotRun
    /\ PipeIdle /\ LookIdle /\ GammaIdle

ClassifyStream ==
    /\ sym_stream = NotRun
    /\ sym_stream' = classify_hsv_stream(hsv[1], hsv[2], hsv[3])
    /\ UNCHANGED <<hsv, sym_image, sym_proto, pipeVars, lookVars, gammaVars>>

ClassifyImage ==
    /\ sym_image = NotRun
    /\ sym_image' = classify_hsv_image(hsv[1], hsv[2], hsv[3])
    /\ UNCHANGED <<hsv, sym_stream, sym_proto, pipeVars, lookVars, gammaVars>>

ClassifyProto ==
    /\ sym_proto = NotRun
    /\ sym_proto' = classify_hsv_proto(hsv[1], hsv[2], hsv[3])
    /\ UNCHANGED <<hsv, sym_stream, sym_image, pipeVars, lookVars, gammaVars>>

NextClassify == ClassifyStream \/ ClassifyImage \/ ClassifyProto

SpecClassify == InitClassify /\ [][NextClassify]_vars

(***************************************************************************)
(* SpecLookup: morse_to_text on one dot/dash string                        *)
(***************************************************************************)
MaxSeqLen == 9

RECURSIVE DotDashStrings(_)
DotDashStrings(n) ==
    IF n = 0 THEN {<<>>}
    ELSE LET shorter == DotDashStrings(n - 1)
         IN  shorter \cup {Append(t, c) : t \in shorter, c \in {".", "-"}}

InitLookup ==
    /\ seq \in DotDashStrings(MaxSeqLen)
    /\ looked = NotRun
    /\ PipeIdle /\ ClassIdle /\ GammaIdle

Lookup ==
    /\ looked = NotRun
    /\ looked' = morse_to_text(seq)
    /\ UNCHANGED <<seq, pipeVars, classVars, gammaVars>>

NextLookup == Lookup

SpecLookup == InitLookup /\ [][NextLookup]_vars

(***************************************************************************)
(* adjust_gamma                                                            *)
(*                                                                         *)
(* gamma is held in tenths (4 is gamma=0.4).  The gammas drawn divide 20,  *)
(* so that invGamma = 1.0 / gamma is a whole number of halves and          *)
(* ((i / 255.0) ** invGamma) * 255 has an exact integer part.              *)
(***************************************************************************)
\* <<a * b \div d, a * b % d>> for a >= 0, 0 <= b <= d, by halving a: no
\* intermediate value exceeds 2 * d.
RECURSIVE MulDivRem(_, _, _)
MulDivRem(a, b, d) ==
    IF a = 0 THEN <<0, 0>>
    ELSE LET half == MulDivRem(a \div 2, b, d)
             q2 == 2 * half[1] + (2 * half[2]) \div d
             r2 == (2 * half[2]) % d
         IN  IF a % 2 = 1 THEN <<q2 + (r2 + b) \div d, (r2 + b) % d>>
             ELSE <<q2, r2>>

RECURSIVE ISqrtIn(_, _, _)
ISqrtIn(n, lo, hi) ==
    IF lo = hi THEN lo
    ELSE LET mid == (lo + hi + 1) \div 2
         IN  IF mid * mid <= n THEN ISqrtIn(n, mid, hi)
             ELSE ISqrtIn(n, lo, mid - 1)

\* The integer part of the square root of n, for 0 <= n < 4096 * 4096.
ISqrt(n) == ISqrtIn(n, 0, 4096)

RECURSIVE IPow(_, _)
IPow(x, n) == IF n = 0 THEN 1 ELSE x * IPow(x, n - 1)

\* ((i / 255.0) ** invGamma) * 255 as the float it is: its integer part, or
\* inf.  e2 is 2 * invGamma = 20 / gamma.
\*   e2 = 1:     sqrt(255 * i)
\*   e2 >= 2:    sqrt(i^e2 / 255^(e2 - 2))
\*   e2 < 0:     0.0 ** invGamma is inf (numpy warns and goes on); the others
\*               are 255^(m/2 + 1) / i^(m/2), m = -e2, or its root for odd m.
table_value(i, g) ==
    LET e2 == 20 \div g
        m == 0 - e2
    IN  IF e2 = 1 THEN [inf |-> FALSE, val |-> ISqrt(255 * i)]
        ELSE IF e2 >= 2
        THEN [inf |-> FALSE,
              val |-> ISqrt(MulDivRem(i * i, IPow(i, e2 - 2),
                                      IPow(255, e2 - 2))[1])]
        ELSE IF i = 0 THEN [inf |-> TRUE, val |-> 0]
        ELSE IF m % 2 = 0
        THEN [inf |-> FALSE,
              val |-> IPow(255, (m \div 2) + 1) \div IPow(i, m \div 2)]
        ELSE [inf |-> FALSE,
              val |-> ISqrt(IPow(255, m + 2) \div IPow(i, m))]

\* What the build makes of astype("uint8") on a float outside 0..255, which
\* the C conversion leaves undefined.
CastOutcomes == {"wrap", "saturate", "zero"}

\* .astype("uint8"): the integer part when it is in 0..255.
astype_uint8(x, c) ==
    IF ~x.inf /\ x.val <= 255 THEN x.val
    ELSE CASE c = "wrap" -> IF x.inf THEN 0 ELSE x.val % 256
           [] c = "saturate" -> 255
           [] c = "zero" -> 0

\* cv2.LUT(image, table): every channel of every pixel through the table.
LUT(image, table) ==
    [r \in DOMAIN image |->
        [c \in DOMAIN image[r] |->
            <<table[image[r][c][1]], table[image[r][c][2]],
              table[image[r][c][3]]>>]]

\* adjust_gamma(image, gamma): 1.0 / gamma raises ZeroDivisionError for
\* gamma = 0; any other gamma builds the table and returns the mapped image.
adjust_gamma(image, g, c) ==
    IF g = 0
    THEN [status |-> "ZeroDivisionError", image |-> <<>>]
    ELSE LET table == [i \in 0..255 |-> astype_uint8(table_value(i, g), c)]
         IN  [status |-> "returned", image |-> LUT(image, table)]

(***************************************************************************)
(* SpecGamma: adjust_gamma on a one-pixel image                            *)
(***************************************************************************)
Gammas == {-20, -10, -5, 0, 4, 5, 10, 20}

GammaNotRun == [status |-> "none", image |-> <<>>]

OnePixel(x) == << << <<x, x, x>> >> >>

InitGamma ==
    /\ gamma \in Gammas
    /\ pixel_in \in 0..255
    /\ cast \in CastOutcomes
    /\ outcome = GammaNotRun
    /\ PipeIdle /\ ClassIdle /\ LookIdle

AdjustGamma ==
    /\ outcome = GammaNotRun
    /\ outcome' = adjust_gamma(OnePixel(pixel_in), gamma, cast)
    /\ UNCHANGED <<gamma, pixel_in, cast, pipeVars, classVars, lookVars>>

NextGamma == AdjustGamma

SpecGamma == InitGamma /\ [][NextGamma]_vars

(***************************************************************************)
(* Sequence extraction                                                     *)
(***************************************************************************)
\* range(16) of "for row in range(16)"
ROWS == 16
\* range(2) of "for word_idx in range(2)"
WORDS_PER_ROW == 2
\* range(8) of "for i in range(8)", and the 8 of "word_idx * 8"
SLOT_WIDTH == 8

\* round half up of sum / n
BlockMean(sum, n) == (2 * sum + n) \div (2 * n)

\* cv2.resize(image, (16, 16), interpolation=cv2.INTER_AREA) for an image of
\* 16k x 16k pixels, rows and columns from 0: each cell is the mean, channel
\* by channel, of its k x k block (the pixel itself for k = 1).
resize(image) ==
    LET k == Cardinality(DOMAIN image) \div 16
        mean(r, c, ch) ==
            LET RECURSIVE total(_)
                total(n) ==
                    IF n = k * k THEN 0
                    ELSE image[r * k + (n \div k)][c * k + (n % k)][ch]
                         + total(n + 1)
            IN  BlockMean(total(0), k * k)
    IN  [r \in 0..15 |-> [c \in 0..15 |->
            <<mean(r, c, 1), mean(r, c, 2), mean(r, c, 3)>>]]

\* start_pixel = word_idx: the slot width left out.
slot_start_Unscaled(word_idx) == word_idx

\* start_pixel = word_idx * 8
slot_start(word_idx) == word_idx * SLOT_WIDTH

\* "for i in range(8)": current_morse_sequence after cells i .. 7 are added.
RECURSIVE read_slot(_, _, _, _, _)
read_slot(variant, row_data, start_pixel, i, current_morse_sequence) ==
    IF i = SLOT_WIDTH THEN current_morse_sequence
    ELSE read_slot(variant, row_data, start_pixel, i + 1,
                   current_morse_sequence
                       \o classify_pixel(variant, row_data[start_pixel + i]))

\* "for word_idx in range(2)": the list after words word_idx .. 1 are added.
RECURSIVE read_words(_, _, _, _)
read_words(variant, row_data, word_idx, sequences) ==
    IF word_idx = WORDS_PER_ROW THEN sequences
    ELSE read_words(variant, row_data, word_idx + 1,
                    Append(sequences,
                           strip(read_slot(variant, row_data,
                                           slot_start(word_idx), 0, <<>>))))

\* "for row in range(16)": the list after rows row .. 15 are added.
RECURSIVE read_rows(_, _, _, _)
read_rows(variant, resized, row, sequences) ==
    IF row = ROWS THEN sequences
    ELSE read_rows(variant, resized, row + 1,
                   read_words(variant, resized[row], 0, sequences))

\* extract_morse_sequences(image) of src/read-morse/readpass.py
extract_morse_sequences(image) == read_rows("stream", resize(image), 0, <<>>)

\* extract_morse_sequences(image) of src/readpassImage.py
extract_morse_sequences_image(image) ==
    read_rows("image", resize(image), 0, <<>>)

\* extract_morse_words(image) of src/readpass.py
extract_morse_words(image) == read_rows("proto", resize(image), 0, <<>>)

(***************************************************************************)
(* Decode assembly                                                         *)
(***************************************************************************)
\* translate_step appending '?' for a sequence without key.
translate_step_KeepUnknown(characters, morse_seq) ==
    IF morse_seq = <<>> THEN Append(characters, <<" ">>)
    ELSE Append(characters, morse_to_text(morse_seq))

\* One turn of "for morse_seq in morse_sequences": the list after morse_seq.
translate_step(characters, morse_seq) ==
    LET translated_char == morse_to_text(morse_seq)
    IN  IF morse_seq = <<>> THEN Append(characters, <<" ">>)
        ELSE IF translated_char # <<"?">> THEN Append(characters, translated_char)
        ELSE characters

\* The whole loop over morse_sequences[i ..].
RECURSIVE translate_from(_, _, _)
translate_from(sequences, i, characters) ==
    IF i > Len(sequences) THEN characters
    ELSE translate_from(sequences, i + 1,
                        translate_step(characters, sequences[i]))

\* "".join(characters).strip()
joined_text(characters) == strip(join(characters))

\* stabilize without the assignment to last_translated_text.
stabilize_ForgetUpdate(current_translated_text, last) ==
    [emit |-> current_translated_text # last, last |-> last]

\* "if current_translated_text != last_translated_text": whether this pass
\* prints, and the last_translated_text it leaves.
stabilize(current_translated_text, last) ==
    IF current_translated_text # last
    THEN [emit |-> TRUE, last |-> current_translated_text]
    ELSE [emit |-> FALSE, last |-> last]

(***************************************************************************)
(* Frames drawn                                                            *)
(***************************************************************************)
\* BGR pixels by letter: r(ed), b(lue), k (black), w(hite), g(reen),
\* d(im red: a dot before gamma 0.4, dark after), p(ale red: a dot for the
\* 40..255 saturation range, none above 80).
Pixel(letter) ==
    CASE letter = "r" -> <<0, 0, 255>>
      [] letter = "b" -> <<255, 0, 0>>
      [] letter = "k" -> <<0, 0, 0>>
      [] letter = "w" -> <<255, 255, 255>>
      [] letter = "g" -> <<0, 255, 0>>
      [] letter = "d" -> <<0, 0, 100>>
      [] letter = "p" -> <<230, 230, 255>>

BlankSlot == <<"k", "k", "k", "k", "k", "k", "k", "k">>

\* Slot contents: unlit; '.-' with an unlit cell between; '.-.-.-.-' (no
\* key); '..--..' (the key of '?'); a dim dot before a dash; a pale dot
\* among white and green cells.
DotGapDash == <<"r", "k", "b", "k", "k", "k", "k", "k">>

SlotPatterns ==
    { BlankSlot,
      DotGapDash,
      <<"r", "b", "r", "b", "r", "b", "r", "b">>,
      <<"r", "r", "b", "b", "r", "r", "k", "k">>,
      <<"d", "b", "k", "k", "k", "k", "k", "k">>,
      <<"w", "p", "g", "k", "k", "k", "k", "k">> }

\* The 16x16 frame whose slot n (row n \div 2, word n % 2) holds slots[n].
MakeFrame(slots) ==
    [r \in 0..15 |-> [c \in 0..15 |->
        Pixel(slots[2 * r + (c \div 8)][(c % 8) + 1])]]

\* The same frame at 32x32: every cell a 2x2 block of its pixel.
Upscale2(image) ==
    [r \in 0..31 |-> [c \in 0..31 |-> image[r \div 2][c \div 2]]]

\* Slots a drawn frame may light: the two of row 0, the first of row 1, the
\* last of row 15.
LitSlots == {0, 1, 2, 31}

SlotsOf(lit) == [n \in 0..31 |-> IF n \in LitSlots THEN lit[n] ELSE BlankSlot]

ImageFrames ==
    {MakeFrame(SlotsOf(lit)) :
         lit \in {f \in [LitSlots -> SlotPatterns] :
                     f[0] \in {BlankSlot, DotGapDash}}}
    \cup {Upscale2(MakeFrame(SlotsOf([n \in LitSlots |-> p]))) :
              p \in SlotPatterns}

StreamFrames ==
    {MakeFrame(SlotsOf([n \in LitSlots |-> IF n = 1 THEN p ELSE BlankSlot])) :
         p \in SlotPatterns}

(***************************************************************************)
(* SpecImage: main() of src/readpassImage.py                               *)
(***************************************************************************)
\* adjust_gamma(image, gamma=0.4) of src/readpassImage.py, in tenths
GAMMA_IMAGE == 4
\* adjust_gamma(frame, gamma=0.4) of src/read-morse/readpass.py, in tenths
GAMMA_STREAM == 4

classIdleVars == <<classVars, lookVars, gammaVars>>
historyVars == <<prev_text, run_emits, run_follows_change, npasses>>

InitImage ==
    /\ pc = "imread"
    /\ cap = "closed"
    /\ ret = FALSE
    /\ frame = <<>>
    /\ processed_frame = <<>>
    /\ morse_sequences = <<>>
    /\ translated_characters = <<>>
    /\ idx = 0
    /\ translated_text = <<>>
    /\ last_translated_text = <<>>
    /\ printed = FALSE
    /\ prev_text = <<>>
    /\ run_emits = 0
    /\ run_follows_change = FALSE
    /\ npasses = 0
    /\ message = <<>>
    /\ ClassIdle /\ LookIdle /\ GammaIdle

\* image = cv2.imread(image_path) is None: main() prints and returns.
ImreadFails ==
    /\ pc = "imread"
    /\ pc' = "done"
    /\ UNCHANGED <<cap, ret, frame, processed_frame, morse_sequences,
                   translated_characters, idx, translated_text,
                   last_translated_text, printed, historyVars, message,
                   classIdleVars>>

\* image = cv2.imread(image_path): some image.
ImreadLoads ==
    /\ pc = "imread"
    /\ \E f \in ImageFrames : frame' = f
    /\ pc' = "gamma"
    /\ UNCHANGED <<cap, ret, processed_frame, morse_sequences,
                   translated_characters, idx, translated_text,
                   last_translated_text, printed, historyVars, message,
                   classIdleVars>>

\* processed_image = adjust_gamma(image, gamma=0.4)
GammaStep ==
    /\ pc = "gamma"
    /\ LET res == adjust_gamma(frame, GAMMA_IMAGE, cast)
       IN  IF res.status = "returned"
           THEN processed_frame' = res.image /\ pc' = "extract"
           ELSE processed_frame' = processed_frame /\ pc' = "raised"
    /\ UNCHANGED <<cap, ret, frame, morse_sequences, translated_characters,
                   idx, translated_text, last_translated_text, printed,
                   historyVars, message, classIdleVars>>

\* morse_sequences = extract_morse_sequences(processed_image);
\* translated_characters = []
ExtractStep ==
    /\ pc = "extract"
    /\ morse_sequences' = extract_morse_sequences_image(processed_frame)
    /\ translated_characters' = <<>>
    /\ idx' = 0
    /\ pc' = "translate"
    /\ UNCHANGED <<cap, ret, frame, processed_frame, translated_text,
                   last_translated_text, printed, historyVars, message,
                   classIdleVars>>

\* One turn of "for i, morse_seq in enumerate(morse_sequences)".
TranslateStep ==
    /\ pc = "translate"
    /\ idx < Len(morse_sequences)
    /\ translated_characters' =
           translate_step(translated_characters, morse_sequences[idx + 1])
    /\ idx' = idx + 1
    /\ UNCHANGED <<pc, cap, ret, frame, processed_frame, morse_sequences,
                   translated_text, last_translated_text, printed,
                   historyVars, message, classIdleVars>>

\* print("".join(translated_characters).strip())
PrintMessage ==
    /\ pc = "translate"
    /\ idx = Len(morse_sequences)
    /\ translated_text' = joined_text(translated_characters)
    /\ printed' = TRUE
    /\ pc' = "window"
    /\ UNCHANGED <<cap, ret, frame, processed_frame, morse_sequences,
                   translated_characters, idx, last_translated_text,
                   historyVars, message, classIdleVars>>

\* 'q' is pressed or the window is closed: cv2.destroyAllWindows().
CloseWindow ==
    /\ pc = "window"
    /\ pc' = "done"
    /\ UNCHANGED <<cap, ret, frame, processed_frame, morse_sequences,
                   translated_characters, idx, translated_text,
                   last_translated_text, printed, historyVars, message,
                   classIdleVars>>

NextImage ==
    \/ ImreadFails
    \/ ImreadLoads
    \/ GammaStep
    \/ ExtractStep
    \/ TranslateStep
    \/ PrintMessage
    \/ CloseWindow

SpecImage == InitImage /\ [][NextImage]_vars

(***************************************************************************)
(* SpecRoundTrip: main() of src/readpassImage.py on the synthetic grid of  *)
(* a message                                                               *)
(***************************************************************************)
MaxMsgLen == 3

\* Symbols of the messages drawn: values of MORSE_CODE_DICT, and the space.
MessageSymbols == {<<"A">>, <<"E">>, <<"?">>, <<" ">>}

RECURSIVE SymbolLists(_)
SymbolLists(n) ==
    IF n = 0 THEN {<<>>}
    ELSE LET shorter == SymbolLists(n - 1)
         IN  shorter \cup {Append(t, x) : t \in shorter, x \in MessageSymbols}

\* Messages with no space at either end.
Messages ==
    {m \in SymbolLists(MaxMsgLen) :
        m = <<>> \/ (m[1] # <<" ">> /\ m[Len(m)] # <<" ">>)}

\* The key MORSE_CODE_DICT maps to the symbol.
KeyOf(symbol) == CHOOSE k \in DOMAIN MORSE_CODE_DICT : MORSE_CODE_DICT[k] = symbol

\* The slot of a symbol: its key from cell 0, red for '.', blue for '-', the
\* other cells unlit; a space is an unlit slot.
SlotOf(symbol) ==
    LET key == IF symbol = <<" ">> THEN <<>> ELSE KeyOf(symbol)
    IN  [n \in 1..8 |-> IF n > Len(key) THEN "k"
                        ELSE IF key[n] = "." THEN "r" ELSE "b"]

\* The grid of a message: symbol n in slot n - 1, the other slots unlit.
Encode(m) ==
    MakeFrame([n \in 0..31 |-> IF n + 1 <= Len(m) THEN SlotOf(m[n + 1])
                               ELSE BlankSlot])

LoadEncoded ==
    /\ pc = "imread"
    /\ \E m \in Messages : message' = m /\ frame' = Encode(m)
    /\ pc' = "gamma"
    /\ UNCHANGED <<cap, ret, processed_frame, morse_sequences,
                   translated_characters, idx, translated_text,
                   last_translated_text, printed, historyVars,
                   classIdleVars>>

NextRoundTrip ==
    \/ LoadEncoded
    \/ GammaStep
    \/ ExtractStep
    \/ TranslateStep
    \/ PrintMessage
    \/ CloseWindow

SpecRoundTrip == InitImage /\ [][NextRoundTrip]_vars

(***************************************************************************)
(* Spec: main() of src/read-morse/readpass.py, the streaming loop          *)
(***************************************************************************)
MaxPasses == 3

Init ==
    /\ pc = "open"
    /\ cap = "closed"
    /\ ret = FALSE
    /\ frame = <<>>
    /\ processed_frame = <<>>
    /\ morse_sequences = <<>>
    /\ translated_characters = <<>>
    /\ idx = 0
    /\ translated_text = <<>>
    /\ last_translated_text = <<>>
    /\ printed = FALSE
    /\ prev_text = <<>>
    /\ run_emits = 0
    /\ run_follows_change = FALSE
    /\ npasses = 0
    /\ message = <<>>
    /\ ClassIdle /\ LookIdle /\ GammaIdle

decodeVars == <<processed_frame, morse_sequences, translated_characters,
                idx, translated_text, last_translated_text, printed,
                historyVars>>

\* cap = cv2.VideoCapture(0); not cap.isOpened(): main() prints and returns.
CameraUnavailable ==
    /\ pc = "open"
    /\ pc' = "done"
    /\ UNCHANGED <<cap, ret, frame, decodeVars, message, classIdleVars>>

\* cap.isOpened(); the cap.set calls; last_translated_text = ""
CameraOpens ==
    /\ pc = "open"
    /\ cap' = "open"
    /\ last_translated_text' = <<>>
    /\ pc' = "read"
    /\ UNCHANGED <<ret, frame, processed_frame, morse_sequences,
                   translated_characters, idx, translated_text, printed,
                   historyVars, message, classIdleVars>>

\* "continue" in place of "break": the loop reads again.
on_read_failure_Continue == "read"

\* Where "if not ret: ... break" leaves the loop.
on_read_failure == "release"

\* ret, frame = cap.read() with ret true.
ReadFrame ==
    /\ pc = "read"
    /\ npasses < MaxPasses
    /\ ret' = TRUE
    /\ \E f \in StreamFrames : frame' = f
    /\ pc' = "decode"
    /\ UNCHANGED <<cap, decodeVars, message, classIdleVars>>

\* ret, frame = cap.read() with ret false: print and break.
ReadFails ==
    /\ pc = "read"
    /\ ret' = FALSE
    /\ frame' = <<>>
    /\ pc' = on_read_failure
    /\ UNCHANGED <<cap, decodeVars, message, classIdleVars>>

\* One decode pass: adjust_gamma, extract_morse_sequences, the translation
\* loop, the join, the comparison with last_translated_text and the prints.
DecodePass ==
    /\ pc = "decode"
    /\ \E res \in {adjust_gamma(frame, GAMMA_STREAM, cast)} :
        IF res.status # "returned"
        THEN /\ pc' = "raised"
             /\ UNCHANGED decodeVars
        ELSE \E sequences \in {extract_morse_sequences(res.image)} :
             \E characters \in {translate_from(sequences, 1, <<>>)} :
             \E current_translated_text \in {joined_text(characters)} :
                LET st == stabilize(current_translated_text,
                                    last_translated_text)
                    same_run == current_translated_text = translated_text
                IN  /\ processed_frame' = res.image
                    /\ morse_sequences' = sequences
                    /\ translated_characters' = characters
                    /\ idx' = Len(sequences)
                    /\ translated_text' = current_translated_text
                    /\ printed' = st.emit
                    /\ last_translated_text' = st.last
                    /\ prev_text' = translated_text
                    /\ run_emits' = (IF same_run THEN run_emits ELSE 0)
                                    + (IF st.emit THEN 1 ELSE 0)
                    /\ run_follows_change' =
                           (IF same_run THEN run_follows_change ELSE TRUE)
                    /\ npasses' = npasses + 1
                    /\ pc' = "show"
    /\ UNCHANGED <<cap, ret, frame, message, classIdleVars>>

\* cv2.imshow; key == ord('q'): break.
KeyQuit ==
    /\ pc = "show"
    /\ pc' = "release"
    /\ UNCHANGED <<cap, ret, frame, decodeVars, message, classIdleVars>>

\* cv2.getWindowProperty(window_name, cv2.WND_PROP_VISIBLE) < 1: break.
WindowClosed ==
    /\ pc = "show"
    /\ pc' = "release"
    /\ UNCHANGED <<cap, ret, frame, decodeVars, message, classIdleVars>>

\* Neither: the loop goes round.
NextIteration ==
    /\ pc = "show"
    /\ pc' = "read"
    /\ UNCHANGED <<cap, ret, frame, decodeVars, message, classIdleVars>>

\* cap.release(); cv2.destroyAllWindows()
Release ==
    /\ pc = "release"
    /\ cap' = "released"
    /\ pc' = "done"
    /\ UNCHANGED <<ret, frame, decodeVars, message, classIdleVars>>

Next ==
    \/ CameraUnavailable
    \/ CameraOpens
    \/ ReadFrame
    \/ ReadFails
    \/ DecodePass
    \/ KeyQuit
    \/ WindowClosed
    \/ NextIteration
    \/ Release

Spec == Init /\ [][Next]_vars

\* main() runs on: once the loop is left, cap.release() is executed.
FairSpec == Spec /\ WF_vars(Release)

(***************************************************************************)
(* Properties                                                              *)
(***************************************************************************)

\* C1: in the streaming loop a decode pass prints a new result exactly when
\* its text differs from the text of the pass before (the empty string
\* before the first pass); so a run of consecutive passes with the same text
\* that follows a different text has printed exactly once, and a run that
\* continues the initial empty text has printed nothing.
C1_EmitIffTextChanged ==
    /\ npasses > 0 => (printed <=> translated_text # prev_text)
    /\ run_emits = (IF run_follows_change THEN 1 ELSE 0)

\* A second or later pass of a run that follows a change: it did not print,
\* and the run has its one print.
C1_Witness ==
    /\ pc = "show"
    /\ npasses >= 2
    /\ translated_text = prev_text
    /\ translated_text # <<>>
    /\ ~printed
    /\ run_follows_change
    /\ run_emits = 1

\* What C2 says one sequence contributes to the text.
C2_Piece(s) ==
    IF s = <<>> THEN <<" ">>
    ELSE IF morse_to_text(s) # <<"?">> THEN morse_to_text(s)
    ELSE <<>>

\* The pieces of sequences[1 .. n], in order.
RECURSIVE C2_Concat(_, _)
C2_Concat(sequences, n) ==
    IF n = 0 THEN <<>>
    ELSE C2_Concat(sequences, n - 1) \o C2_Piece(sequences[n])

\* s without its leading and trailing whitespace: from its first to its last
\* character that is not whitespace.
C2_Trim(s) ==
    LET solid == {i \in DOMAIN s : s[i] \notin Whitespace}
    IN  IF solid = {} THEN <<>>
        ELSE SubSeq(s, CHOOSE i \in solid : \A j \in solid : i <= j,
                       CHOOSE i \in solid : \A j \in solid : j <= i)

RECURSIVE C3_Cells(_, _, _, _)
C3_Cells(grid, r, c, n) ==
    IF n = 0 THEN <<>>
    ELSE LET x == cvtColor_BGR2HSV(grid[r][c])
         IN  classify_hsv_image(x[1], x[2], x[3])
                 \o C3_Cells(grid, r, c + 1, n - 1)

\* C3: extract_morse_sequences returns 32 sequences, and the one at index
\* 2r + w is the left-to-right concatenation of the symbols of cells
\* (r, 8w) .. (r, 8w + 7) of the 16x16 grid, an unlit cell adding nothing.
C3_RowMajorSlots ==
    (pc = "translate" /\ idx = 0) =>
        /\ Len(morse_sequences) = 32
        /\ \E grid \in {resize(processed_frame)} :
               \A r \in 0..15 : \A w \in 0..1 :
                   morse_sequences[2 * r + w + 1] = C3_Cells(grid, r, 8 * w, 8)

\* Slot 1 read across an unlit cell, slot 2 full, slot 31 lit.
C3_Witness ==
    /\ pc = "translate"
    /\ idx = 0
    /\ morse_sequences[1] = <<>>
    /\ morse_sequences[2] = <<".", "-">>
    /\ Len(morse_sequences[3]) = 8
    /\ morse_sequences[32] = <<".">>

\* What C4 says of a sample.
C4_ClassA(h, s, v) ==
    /\ h \in (0..10) \cup (160..179)
    /\ s \in 40..255
    /\ v \in 80..255

C4_ClassB(h, s, v) ==
    /\ h \in 90..130
    /\ s \in 40..255
    /\ v \in 80..255

C4_Symbol(h, s, v) ==
    IF C4_ClassA(h, s, v) THEN <<".">>
    ELSE IF C4_ClassB(h, s, v) THEN <<"-">>
    ELSE <<>>

\* C4: classify_pixel (read-morse/readpass.py and readpassImage.py) returns
\* '.' exactly for the samples of class A, '-' exactly for those of class B
\* outside class A, and '' for the others.
C4_ClassifyByRanges ==
    /\ sym_stream # NotRun => sym_stream = C4_Symbol(hsv[1], hsv[2], hsv[3])
    /\ sym_image # NotRun => sym_image = C4_Symbol(hsv[1], hsv[2], hsv[3])

\* A sample on three inclusive bounds at once, classified a dot.
C4_Witness ==
    /\ hsv = <<10, 40, 80>>
    /\ sym_stream = <<".">>
    /\ sym_image = <<".">>

\* C5: a message of CodeTable values and spaces, encoded one symbol per slot
\* into a grid of red, blue and unlit cells, is printed back exactly.
C5_RoundTrip ==
    (pc = "done" /\ printed) => translated_text = join(message)

\* C6: morse_to_text returns, for a key of the table, the value the table
\* holds for it, and '?' for every other sequence; '...---...' gives the one
\* token "SOS", which is none of the tokens "S", "O", "S" that '...', '---',
\* '...' give slot by slot.
C6_ExactLookup ==
    looked # NotRun =>
        /\ \A j \in DOMAIN MORSE_CODE_ITEMS :
               (/\ MORSE_CODE_ITEMS[j][1] = seq
                /\ \A m \in DOMAIN MORSE_CODE_ITEMS :
                       m > j => MORSE_CODE_ITEMS[m][1] # seq)
                   => looked = MORSE_CODE_ITEMS[j][2]
        /\ (\A j \in DOMAIN MORSE_CODE_ITEMS : MORSE_CODE_ITEMS[j][1] # seq)
               => looked = <<"?">>
        /\ seq = <<".", "-", ".", "-", ".", "-", ".", "-">>
               => looked = <<"?">>
        /\ seq = <<".", ".", ".", "-", "-", "-", ".", ".", ".">> =>
               /\ looked = <<"S", "O", "S">>
               /\ morse_to_text(<<".", ".", ".">>) = <<"S">>
               /\ morse_to_text(<<"-", "-", "-">>) = <<"O">>
               /\ looked # morse_to_text(<<".", ".", ".">>)
               /\ looked # morse_to_text(<<"-", "-", "-">>)

C6_Witness ==
    /\ seq = <<".", ".", ".", "-", "-", "-", ".", ".", ".">>
    /\ looked = <<"S", "O", "S">>

\* C7 as claimed: the classify_pixel of the three files agree on every
\* sample.
C7_ThreeVariantsAgree ==
    (sym_stream # NotRun /\ sym_image # NotRun /\ sym_proto # NotRun) =>
        (sym_stream = sym_image /\ sym_image = sym_proto)

\* C7, amended: the classify_pixel of src/readpassImage.py and of
\* src/read-morse/readpass.py agree on every sample.
C7_StreamAndImageAgree ==
    (sym_stream # NotRun /\ sym_image # NotRun) => sym_stream = sym_image

\* A sample the two classify a dot and src/readpass.py leaves unlit.
C7_Witness ==
    /\ hsv = <<10, 255, 255>>
    /\ sym_stream = <<".">>
    /\ sym_image = <<".">>
    /\ sym_proto = <<>>

\* C8: adjust_gamma with gamma <= 0 fails and returns no frame; only
\* gamma > 0 returns a frame.
C8_NonPositiveGammaFails ==
    outcome.status # "none" =>
        /\ gamma <= 0 =>
               (outcome.status = "ZeroDivisionError" /\ outcome.image = <<>>)
        /\ gamma > 0 => outcome.status = "returned"

\* The loop has left by a failed read.
C9_ReadFailed == ~ret /\ pc \in {"release", "done"} /\ cap # "closed"

\* C9: a failed cap.read() leaves the loop for cap.release() with no decode
\* pass, no print and last_translated_text as it was; after it nothing but
\* the release happens, and the release does happen.
C9_FailedReadEndsLoop ==
    /\ [][/\ (pc = "read" /\ ~ret') =>
                 (pc' = "release" /\ UNCHANGED <<decodeVars, cap>>)
          /\ C9_ReadFailed =>
                 /\ pc = "release"
                 /\ pc' = "done"
                 /\ cap' = "released"
                 /\ UNCHANGED <<decodeVars, ret, frame>>]_vars
    /\ (C9_ReadFailed ~> (pc = "done" /\ cap = "released"))

\* A read failed after a pass had printed, and the device is released.
C9_Witness ==
    /\ pc = "done"
    /\ ~ret
    /\ cap = "released"
    /\ npasses >= 1
    /\ last_translated_text # <<>>

\* C10: every sequence extracted is made of '.' and '-' only and is at most
\* 8 long.
C10_DotDashAtMostEight ==
    \A i \in DOMAIN morse_sequences :
        /\ Len(morse_sequences[i]) <= 8
        /\ \A n \in DOMAIN morse_sequences[i] :
               morse_sequences[i][n] \in {".", "-"}

\* A slot with all eight cells lit.
C10_Witness ==
    /\ pc = "show"
    /\ Len(morse_sequences) = 32
    /\ Len(morse_sequences[2]) = 8

\* With C7: the extract_morse_sequences of src/readpassImage.py and of
\* src/read-morse/readpass.py return the same list for every frame.
C7_ExtractionsAgree ==
    (pc = "translate" /\ idx = 0) =>
        extract_morse_sequences(processed_frame) = morse_sequences

\* With C7: so does extract_morse_words of src/readpass.py (it does not).
C7_PrototypeExtractionAgrees ==
    (pc = "translate" /\ idx = 0) =>
        extract_morse_words(processed_frame) = morse_sequences

====
